---- MODULE Spec2Model ----
(***************************************************************************)
(* A state-machine model of pyserializer.py: deserialize, the tag-block    *)
(* parser process_nested_fields and the header parser processTxtHeader.    *)
(*                                                                         *)
(* Text.  A Python str is modelled as a sequence of tokens.  The tokens    *)
(* "<", ">", "/" and ":" are the characters the code tests or splits on,   *)
(* " " and "\n" are whitespace (what str.strip removes), and every other   *)
(* token is a maximal run of other characters that neither starts nor      *)
(* ends with whitespace ("10-K", "FILED AS OF DATE").  startswith, split   *)
(* and strip below work on tokens exactly as the str methods work on the   *)
(* characters.  The empty str is <<>>.                                     *)
(*                                                                         *)
(* Values.  A dict is a function from keys (strs) to tagged values:        *)
(* [t |-> "str", v |-> a str], [t |-> "rec", v |-> a dict] or              *)
(* [t |-> "list", v |-> a sequence of "str" and "rec" values].             *)
(*                                                                         *)
(* References.  Every dict the parsers hold a reference to is reachable    *)
(* from the top-level dict, so a reference is modelled as the path from    *)
(* the top-level dict: a sequence of [key, idx], idx = 0 for a dict stored *)
(* directly under the key and idx = i for the i-th element of a list.      *)
(***************************************************************************)
EXTENDS Integers, Sequences, FiniteSets, TLC

VARIABLES
    feed,      \* which family of inputs the line source draws its lines from
    src,       \* kind of the line source: "file" (has .name) or "stringio"
    nread,     \* number of lines the line source has yielded
    eof,       \* the line source has reported end of input
    pc,        \* where the program is
    line,      \* the line last returned by readline
    fields,    \* deserialize's top-level dict
    stack,     \* activations of process_nested_fields, innermost last
    content,   \* the TEXT branch's list of raw lines
    hstack,    \* processTxtHeader's current_section_stack
    log,       \* what has been handed to the logging module, in order
    err        \* the exception deserialize has raised, if any

vars == <<feed, src, nread, eof, pc, line, fields, stack, content, hstack, log, err>>

(***************************************************************************)
(* Bounds of the model                                                     *)
(***************************************************************************)
\* Lines an input of the shortest family may hold
MaxLines == 5

(***************************************************************************)
(* str operations                                                          *)
(***************************************************************************)
EmptyStr == <<>>

IsSpace(tok) == tok \in {" ", "\n", "\t"}

\* s.startswith(prefix)
StartsWith(s, prefix) ==
    /\ Len(s) >= Len(prefix)
    /\ SubSeq(s, 1, Len(prefix)) = prefix

\* index of the first occurrence of the character sep in s, 0 if none
Find(s, sep) ==
    IF \E i \in 1..Len(s) : s[i] = sep
    THEN CHOOSE i \in 1..Len(s) : s[i] = sep /\ \A j \in 1..(i - 1) : s[j] # sep
    ELSE 0

\* s.split(sep, 1)
Split1(s, sep) ==
    LET i == Find(s, sep)
    IN  IF i = 0 THEN <<s>>
        ELSE <<SubSeq(s, 1, i - 1), SubSeq(s, i + 1, Len(s))>>

\* s.strip()
Strip(s) ==
    IF \A i \in 1..Len(s) : IsSpace(s[i]) THEN EmptyStr
    ELSE LET a == CHOOSE i \in 1..Len(s) :
                      ~IsSpace(s[i]) /\ \A j \in 1..(i - 1) : IsSpace(s[j])
             b == CHOOSE i \in 1..Len(s) :
                      ~IsSpace(s[i]) /\ \A j \in (i + 1)..Len(s) : IsSpace(s[j])
         IN  SubSeq(s, a, b)

RECURSIVE Join(_)
\* ''.join(parts)
Join(parts) ==
    IF parts = <<>> THEN EmptyStr ELSE Head(parts) \o Join(Tail(parts))

(***************************************************************************)
(* dict operations                                                         *)
(***************************************************************************)
EmptyDict == <<>>

StrVal(s) == [t |-> "str", v |-> s]
RecVal(d) == [t |-> "rec", v |-> d]
ListVal(l) == [t |-> "list", v |-> l]

\* d[key] = val
Put(d, key, val) ==
    [k \in (DOMAIN d) \cup {key} |-> IF k = key THEN val ELSE d[k]]

\* the list under d[key] after "if key not in d: d[key] = []"
ListOf(d, key) == IF key \in DOMAIN d THEN d[key].v ELSE <<>>

RECURSIVE GetAt(_, _)
\* the dict a reference designates
GetAt(d, path) ==
    IF path = <<>> THEN d
    ELSE LET s == Head(path)
         IN  GetAt(IF s.idx = 0 THEN d[s.key].v ELSE d[s.key].v[s.idx].v, Tail(path))

RECURSIVE SetAt(_, _, _)
\* the top-level dict after the dict a reference designates has become new
SetAt(d, path, new) ==
    IF path = <<>> THEN new
    ELSE LET s == Head(path)
         IN  IF s.idx = 0
             THEN [d EXCEPT ![s.key] = RecVal(SetAt(d[s.key].v, Tail(path), new))]
             ELSE [d EXCEPT ![s.key] =
                      ListVal([d[s.key].v EXCEPT ![s.idx] =
                                  RecVal(SetAt(d[s.key].v[s.idx].v, Tail(path), new))])]

(***************************************************************************)
(* Static tables                                                           *)
(***************************************************************************)
field_is_array(field) ==
    field \in { <<"ITEMS">>, <<"FORMER-COMPANY">>, <<"DOCUMENT">>, <<"CLASS-CONTRACT">>,
                <<"FORMER-NAME">>, <<"FILER">>, <<"SERIES">>, <<"GROUP-MEMBERS">>,
                <<"FILED-FOR">>, <<"REPORTING-OWNER">>, <<"NEW-SERIES">>, <<"MERGER">>,
                <<"ITEM">>, <<"REFERENCES-429">>, <<"TARGET-DATA">>,
                <<"NEW-CLASSES-CONTRACTS">>, <<"SUBJECT-COMPANY">>, <<"RULE">> }

\* keys that are scalar leaves even with an empty value
FlagKeys ==
    { <<"ORGANIZATION-NAME">>, <<"CONFIRMING-COPY">>, <<"PRIVATE-TO-PUBLIC">>,
      <<"CORRECTION">>, <<"DELETION">> }

\* entries of KEY_MAP: a plain rename, or (canonical name, nested table)
Plain(name) == [name |-> <<name>>, sub |-> "none"]
Nested(name, table) == [name |-> <<name>>, sub |-> table]

\* isinstance(key_map[key], tuple)
IsTuple(entry) == entry.sub # "none"

\* KEY_MAP ("KEY_MAP") and its nested tables, by the header key that opens each
KEY_MAP(table) ==
    CASE table = "KEY_MAP" ->
            (<<"ACCESSION NUMBER">> :> Plain("ACCESSION-NUMBER")) @@
            (<<"CONFORMED SUBMISSION TYPE">> :> Plain("TYPE")) @@
            (<<"PUBLIC DOCUMENT COUNT">> :> Plain("PUBLIC-DOCUMENT-COUNT")) @@
            (<<"CONFORMED PERIOD OF REPORT">> :> Plain("PERIOD")) @@
            (<<"FILED AS OF DATE">> :> Plain("FILING-DATE")) @@
            (<<"DATE AS OF CHANGE">> :> Plain("DATE-OF-FILING-DATE-CHANGE")) @@
            (<<"FILER">> :> Nested("FILER", "FILER"))
      [] table = "FILER" ->
            (<<"COMPANY DATA">> :> Nested("COMPANY-DATA", "COMPANY DATA")) @@
            (<<"FILING VALUES">> :> Nested("FILING-VALUES", "FILING VALUES")) @@
            (<<"BUSINESS ADDRESS">> :> Nested("BUSINESS-ADDRESS", "BUSINESS ADDRESS")) @@
            (<<"MAIL ADDRESS">> :> Nested("MAIL-ADDRESS", "MAIL ADDRESS")) @@
            (<<"FORMER COMPANY">> :> Nested("FORMER-COMPANY", "FORMER COMPANY"))
      [] table = "COMPANY DATA" ->
            (<<"COMPANY CONFORMED NAME">> :> Plain("CONFORMED-NAME")) @@
            (<<"CENTRAL INDEX KEY">> :> Plain("CIK")) @@
            (<<"STANDARD INDUSTRIAL CLASSIFICATION">> :> Plain("ASSIGNED-SIC")) @@
            (<<"ORGANIZATION NAME">> :> Plain("ORGANIZATION-NAME")) @@
            (<<"IRS NUMBER">> :> Plain("IRS-NUMBER")) @@
            (<<"STATE OF INCORPORATION">> :> Plain("STATE-OF-INCORPORATION")) @@
            (<<"FISCAL YEAR END">> :> Plain("FISCAL-YEAR-END"))
      [] table = "FILING VALUES" ->
            (<<"FORM TYPE">> :> Plain("FORM-TYPE")) @@
            (<<"SEC ACT">> :> Plain("ACT")) @@
            (<<"SEC FILE NUMBER">> :> Plain("FILE-NUMBER")) @@
            (<<"FILM NUMBER">> :> Plain("FILM-NUMBER"))
      [] table = "BUSINESS ADDRESS" ->
            (<<"STREET 1">> :> Plain("STREET1")) @@
            (<<"CITY">> :> Plain("CITY")) @@
            (<<"STATE">> :> Plain("STATE")) @@
            (<<"ZIP">> :> Plain("ZIP")) @@
            (<<"BUSINESS PHONE">> :> Plain("PHONE"))
      [] table = "MAIL ADDRESS" ->
            (<<"STREET 1">> :> Plain("STREET1")) @@
            (<<"CITY">> :> Plain("CITY")) @@
            (<<"STATE">> :> Plain("STATE")) @@
            (<<"ZIP">> :> Plain("ZIP"))
      [] table = "FORMER COMPANY" ->
            (<<"FORMER CONFORMED NAME">> :> Plain("FORMER-CONFORMED-NAME")) @@
            (<<"DATE OF NAME CHANGE">> :> Plain("DATE-CHANGED"))

(***************************************************************************)
(* The line source                                                         *)
(***************************************************************************)
\* what readline returns at end of input
EOF == EmptyStr

OpenTag(key) == <<"<", key, ">", "\n">>
Leaf(key, value) == <<"<", key, ">", value, "\n">>
CloseTag(key) == <<"<", "/", key, ">", "\n">>
Header(key, value) == <<key, ":", " ", value, "\n">>
Section(key) == <<key, ":", "\n">>
Blank == <<"\n">>
FreeText == <<"free text", "\n">>
AcceptanceLine == <<"<", "ACCEPTANCE-DATETIME", ">", "12", ":", "30", "\n">>

\* The families of inputs: the lines an input of the family is made of, how
\* many lines longer than MaxLines it may be, and the kind of its line source.
Feeds == {"tag", "text", "header", "sections"}

Alphabet(f) ==
    CASE f = "tag" ->
            { OpenTag("SUBMISSION"), CloseTag("SUBMISSION"), CloseTag("SEC-DOCUMENT"),
              Leaf("TYPE", "10-K"), OpenTag("TYPE"),
              OpenTag("DOCUMENT"), Leaf("DOCUMENT", "x"), CloseTag("DOCUMENT"),
              FreeText, Blank, <<"<", "TYPE 10-K", "\n">>, OpenTag("CORRECTION"),
              Leaf("SEC-DOCUMENT", "x") }
      [] f = "text" ->
            { OpenTag("SUBMISSION"), CloseTag("SUBMISSION"), CloseTag("SEC-DOCUMENT"),
              OpenTag("DOCUMENT"), OpenTag("TEXT"), CloseTag("TEXT"), FreeText }
      [] f = "header" ->
            { OpenTag("SUBMISSION"), OpenTag("SEC-HEADER"), CloseTag("SEC-HEADER"),
              Section("FILER"), Header("FILED AS OF DATE", "1"),
              Header("FILED AS OF DATE", "2"), Blank, <<"COMPANY DATA", "\n">>,
              AcceptanceLine, Header("ITEM INFORMATION", "x"), OpenTag("FILER"),
              CloseTag("SUBMISSION") }
      [] f = "sections" ->
            { OpenTag("SUBMISSION"), OpenTag("SEC-HEADER"), CloseTag("SEC-HEADER"),
              Section("FILER"), Section("COMPANY DATA"),
              Header("CENTRAL INDEX KEY", "1"), Blank }

Extra(f) ==
    CASE f = "tag" -> 0 [] f = "text" -> 1 [] f = "header" -> 1 [] f = "sections" -> 2

SourceOf(f) == IF f = "text" THEN "stringio" ELSE "file"

\* readline returns l: a further line of the input, or EOF from the end on
ReadLine(l) ==
    /\ line' = l
    /\ IF l = EOF
       THEN eof' = TRUE /\ nread' = nread
       ELSE /\ ~eof
            /\ nread < MaxLines + Extra(feed)
            /\ l \in Alphabet(feed)
            /\ eof' = FALSE
            /\ nread' = nread + 1

Lines == UNION {Alphabet(f) : f \in Feeds} \cup {EOF}

(***************************************************************************)
(* Exceptions and log records                                              *)
(***************************************************************************)
NoError == [type |-> "none", msg |-> "none"]
ValueError(msg) == [type |-> "ValueError", msg |-> msg]
AttributeError(msg) == [type |-> "AttributeError", msg |-> msg]

Warning(what, arg) == [level |-> "warning", what |-> what, arg |-> arg]
ErrorLog(e) == [level |-> "error", what |-> e.msg, arg |-> EmptyStr]

\* "raise e" anywhere below deserialize's try: every activation of the parsers
\* is unwound and control passes to deserialize's except clause.
Raise(e) ==
    /\ pc' = "except"
    /\ err' = e
    /\ stack' = <<>>
    /\ hstack' = <<>>
    /\ UNCHANGED log

(***************************************************************************)
(* Initial state: deserialize(input) has been called                       *)
(***************************************************************************)
Init ==
    /\ feed \in Feeds
    /\ src = SourceOf(feed)
    /\ nread = 0
    /\ eof = FALSE
    /\ pc = "start"
    /\ line = EmptyStr
    /\ fields = EmptyDict
    /\ stack = <<>>
    /\ content = <<>>
    /\ hstack = <<>>
    /\ log = <<>>
    /\ err = NoError

(***************************************************************************)
(* deserialize: the leading marker                                         *)
(***************************************************************************)
\* a variant that accepts <SUBMISSION> alone
IsSubmissionMarker(l) == StartsWith(l, <<"<", "SUBMISSION", ">">>)

IsLeadingMarker(l) ==
    \/ StartsWith(l, <<"<", "SUBMISSION", ">">>)
    \/ StartsWith(l, <<"<", "SEC-DOCUMENT", ">">>)

\* the activation process_nested_fields(field_name, fields, reader)
Frame(name, path) == [name |-> name, path |-> path]

Start ==
    /\ pc = "start"
    /\ \E l \in Lines :
        /\ ReadLine(l)
        /\ IF ~IsLeadingMarker(l)
           THEN /\ Raise(ValueError("InvalidLeadingMarker"))
                /\ UNCHANGED <<fields, content>>
           ELSE /\ fields' = EmptyDict
                /\ stack' = <<Frame(<<"SUBMISSION">>, <<>>)>>
                /\ pc' = "tag"
                /\ UNCHANGED <<content, hstack, log, err>>
    /\ UNCHANGED <<feed, src>>

(***************************************************************************)
(* process_nested_fields: one iteration of its loop                        *)
(***************************************************************************)
\* a variant for which any close tag ends the block
IsTerminatorAnyClose(l, field_name) == StartsWith(l, <<"<", "/">>)

\* the line ends the block field_name
IsTerminator(l, field_name) ==
    \/ StartsWith(l, <<"<", "/">> \o field_name \o <<">">>)
    \/ StartsWith(l, <<"<", "/", "SEC-DOCUMENT", ">">>)

\* the innermost activation returns to its caller
ReturnFromBlock ==
    /\ stack' = SubSeq(stack, 1, Len(stack) - 1)
    /\ pc' = IF Len(stack) = 1 THEN "check" ELSE "tag"
    /\ UNCHANGED <<fields, content, hstack, log, err>>

\* a key with an empty value opens a nested block
IsNested(key, value) == value = EmptyStr /\ key \notin FlagKeys

\* a variant of the nested branch that starts the list afresh at every
\* occurrence ("fields[key] = []" without its test)
NestedFieldResets(top, key) ==
    LET rec == GetAt(fields, top.path)
    IN  IF field_is_array(key)
        THEN /\ fields' = SetAt(fields, top.path, Put(rec, key, ListVal(<<RecVal(EmptyDict)>>)))
             /\ stack' = Append(stack, Frame(key, Append(top.path, [key |-> key, idx |-> 1])))
             /\ UNCHANGED <<pc, content, hstack, log, err>>
        ELSE IF key \in DOMAIN rec
        THEN /\ Raise(ValueError("DuplicateKey"))
             /\ UNCHANGED <<fields, content>>
        ELSE /\ fields' = SetAt(fields, top.path, Put(rec, key, RecVal(EmptyDict)))
             /\ stack' = Append(stack, Frame(key, Append(top.path, [key |-> key, idx |-> 0])))
             /\ UNCHANGED <<pc, content, hstack, log, err>>

\* a variant of the nested branch that recurses into the dict of the
\* enclosing block ("fields" for "fields[key]")
NestedFieldInParent(top, key) ==
    LET rec == GetAt(fields, top.path)
    IN  IF field_is_array(key)
        THEN /\ fields' = SetAt(fields, top.path,
                    Put(rec, key, ListVal(Append(ListOf(rec, key), RecVal(EmptyDict)))))
             /\ stack' = Append(stack, Frame(key, top.path))
             /\ UNCHANGED <<pc, content, hstack, log, err>>
        ELSE IF key \in DOMAIN rec
        THEN /\ Raise(ValueError("DuplicateKey"))
             /\ UNCHANGED <<fields, content>>
        ELSE /\ fields' = SetAt(fields, top.path, Put(rec, key, RecVal(EmptyDict)))
             /\ stack' = Append(stack, Frame(key, top.path))
             /\ UNCHANGED <<pc, content, hstack, log, err>>

\* the nested branch: the new dict is stored and the parser recurses into it
NestedField(top, key) ==
    LET rec == GetAt(fields, top.path)
    IN  IF field_is_array(key)
        THEN /\ fields' = SetAt(fields, top.path,
                    Put(rec, key, ListVal(Append(ListOf(rec, key), RecVal(EmptyDict)))))
             /\ stack' = Append(stack,
                    Frame(key, Append(top.path,
                                      [key |-> key, idx |-> Len(ListOf(rec, key)) + 1])))
             /\ UNCHANGED <<pc, content, hstack, log, err>>
        ELSE IF key \in DOMAIN rec
        THEN /\ Raise(ValueError("DuplicateKey"))
             /\ UNCHANGED <<fields, content>>
        ELSE /\ fields' = SetAt(fields, top.path, Put(rec, key, RecVal(EmptyDict)))
             /\ stack' = Append(stack, Frame(key, Append(top.path, [key |-> key, idx |-> 0])))
             /\ UNCHANGED <<pc, content, hstack, log, err>>

\* a variant of the scalar branch that stores nothing for a key without a
\* value
ScalarFieldSkipsEmpty(top, key, value) ==
    LET rec == GetAt(fields, top.path)
    IN  IF value = EmptyStr
        THEN UNCHANGED <<pc, fields, stack, content, hstack, log, err>>
        ELSE IF field_is_array(key)
        THEN /\ fields' = SetAt(fields, top.path,
                    Put(rec, key, ListVal(Append(ListOf(rec, key), StrVal(value)))))
             /\ UNCHANGED <<pc, stack, content, hstack, log, err>>
        ELSE IF key \in DOMAIN rec
        THEN /\ Raise(ValueError("DuplicateKey"))
             /\ UNCHANGED <<fields, content>>
        ELSE /\ fields' = SetAt(fields, top.path, Put(rec, key, StrVal(value)))
             /\ UNCHANGED <<pc, stack, content, hstack, log, err>>

\* the scalar branch
ScalarField(top, key, value) ==
    LET rec == GetAt(fields, top.path)
    IN  IF field_is_array(key)
        THEN /\ fields' = SetAt(fields, top.path,
                    Put(rec, key, ListVal(Append(ListOf(rec, key), StrVal(value)))))
             /\ UNCHANGED <<pc, stack, content, hstack, log, err>>
        ELSE IF key \in DOMAIN rec
        THEN /\ Raise(ValueError("DuplicateKey"))
             /\ UNCHANGED <<fields, content>>
        ELSE /\ fields' = SetAt(fields, top.path, Put(rec, key, StrVal(value)))
             /\ UNCHANGED <<pc, stack, content, hstack, log, err>>

\* a variant that lets blank lines through to the split
HasOpenBracketOrBlank(l) == StartsWith(l, <<"<">>) \/ Strip(l) = EmptyStr

\* "line.startswith('<')" and "len(parts) < 2" negated
HasOpenBracket(l) == StartsWith(l, <<"<">>)
HasCloseBracket(parts) == Len(parts) >= 2

\* a variant whose frames all carry the root table
HFrameRootTable(path, table, label) == [path |-> path, table |-> "KEY_MAP", label |-> label]

\* the initial frame of processTxtHeader(fields, reader)
HFrame(path, table, label) == [path |-> path, table |-> table, label |-> label]

TagStep(l) ==
    LET top == stack[Len(stack)]
        parts == Split1(l, ">")
        key == Strip(Tail(parts[1]))
        value == Strip(parts[2])
    IN  IF l = EOF \/ IsTerminator(l, top.name)
        THEN ReturnFromBlock
        ELSE IF ~HasOpenBracket(l)
        THEN /\ Raise(ValueError("MissingOpenBracket"))
             /\ UNCHANGED <<fields, content>>
        ELSE IF ~HasCloseBracket(parts)
        THEN /\ Raise(ValueError("MissingCloseBracket"))
             /\ UNCHANGED <<fields, content>>
        ELSE IF key = <<"TEXT">>
        THEN /\ pc' = "text"
             /\ content' = <<>>
             /\ UNCHANGED <<fields, stack, hstack, log, err>>
        ELSE IF key = <<"SEC-HEADER">>
        THEN /\ pc' = "header"
             /\ hstack' = <<HFrame(top.path, "KEY_MAP", EmptyStr)>>
             /\ UNCHANGED <<fields, stack, content, log, err>>
        ELSE IF IsNested(key, value)
        THEN NestedField(top, key)
        ELSE ScalarField(top, key, value)

TagLine ==
    /\ pc = "tag"
    /\ \E l \in Lines : ReadLine(l) /\ TagStep(l)
    /\ UNCHANGED <<feed, src>>

(***************************************************************************)
(* process_nested_fields: one iteration of the TEXT branch's loop          *)
(***************************************************************************)
IsTextEnd(l) == StartsWith(l, <<"<", "/", "TEXT", ">">>)

\* a variant that strips the payload, as the parser strips scalar values
StoreTextStripped(rec, lines) == Put(rec, <<"TEXT">>, StrVal(Strip(Join(lines))))

\* fields[key] = ''.join(content)
StoreText(rec, lines) == Put(rec, <<"TEXT">>, StrVal(Join(lines)))

TextStep(l) ==
    LET top == stack[Len(stack)]
    IN  IF l = EOF
        THEN /\ Raise(ValueError("UnterminatedText"))
             /\ UNCHANGED <<fields, content>>
        ELSE IF IsTextEnd(l)
        THEN /\ fields' = SetAt(fields, top.path, StoreText(GetAt(fields, top.path), content))
             /\ pc' = "tag"
             /\ content' = <<>>
             /\ UNCHANGED <<stack, hstack, log, err>>
        ELSE /\ content' = Append(content, l)
             /\ UNCHANGED <<pc, fields, stack, hstack, log, err>>

TextLine ==
    /\ pc = "text"
    /\ \E l \in Lines : ReadLine(l) /\ TextStep(l)
    /\ UNCHANGED <<feed, src>>

(***************************************************************************)
(* processTxtHeader: one iteration of its loop                             *)
(***************************************************************************)
\* "not line or line.strip() == ''"
IsBlank(l) == l = EOF \/ Strip(l) = EmptyStr

\* a variant that closes the section whether or not its dict holds anything
ClosesSectionEmpty(rec) == Len(hstack) > 1

\* a blank line or the end of input closes the section of the top frame
ClosesSection(rec) == Cardinality(DOMAIN rec) > 0 /\ Len(hstack) > 1

\* a variant of the nested-section entry that stores every section as a
\* single dict, array-named or not
HeaderSectionSingle(top, entry, key) ==
    LET rec == GetAt(fields, top.path)
        orig_key == entry.name
    IN  /\ log' = IF orig_key \in DOMAIN rec
                  THEN Append(log, Warning("DuplicateKey", orig_key))
                  ELSE log
        /\ fields' = SetAt(fields, top.path, Put(rec, orig_key, RecVal(EmptyDict)))
        /\ hstack' = Append(hstack,
               HFrame(Append(top.path, [key |-> orig_key, idx |-> 0]), entry.sub, key))

\* the key maps to a nested section
HeaderSection(top, entry, key) ==
    LET rec == GetAt(fields, top.path)
        orig_key == entry.name
    IN  IF field_is_array(orig_key)
        THEN /\ fields' = SetAt(fields, top.path,
                    Put(rec, orig_key,
                        ListVal(Append(ListOf(rec, orig_key), RecVal(EmptyDict)))))
             /\ hstack' = Append(hstack,
                    HFrame(Append(top.path,
                                  [key |-> orig_key, idx |-> Len(ListOf(rec, orig_key)) + 1]),
                           entry.sub, key))
             /\ UNCHANGED log
        ELSE /\ log' = IF orig_key \in DOMAIN rec
                       THEN Append(log, Warning("DuplicateKey", orig_key))
                       ELSE log
             /\ fields' = SetAt(fields, top.path, Put(rec, orig_key, RecVal(EmptyDict)))
             /\ hstack' = Append(hstack,
                    HFrame(Append(top.path, [key |-> orig_key, idx |-> 0]), entry.sub, key))

\* a variant of the plain rename that warns and keeps the first value
HeaderValueKeepsFirst(top, orig_key, value) ==
    LET rec == GetAt(fields, top.path)
    IN  IF field_is_array(orig_key)
        THEN /\ fields' = SetAt(fields, top.path,
                    Put(rec, orig_key, ListVal(Append(ListOf(rec, orig_key), StrVal(value)))))
             /\ UNCHANGED <<hstack, log>>
        ELSE IF orig_key \in DOMAIN rec
        THEN /\ log' = Append(log, Warning("DuplicateKey", orig_key))
             /\ UNCHANGED <<fields, hstack>>
        ELSE /\ fields' = SetAt(fields, top.path, Put(rec, orig_key, StrVal(value)))
             /\ UNCHANGED <<hstack, log>>

\* a variant of the plain rename that keeps the header's values in a Record
\* of their own, under the key SEC-HEADER
HeaderValueUnderHeader(top, orig_key, value) ==
    LET rec == GetAt(fields, top.path)
        sub == IF <<"SEC-HEADER">> \in DOMAIN rec THEN rec[<<"SEC-HEADER">>].v ELSE EmptyDict
    IN  /\ fields' = SetAt(fields, top.path,
               Put(rec, <<"SEC-HEADER">>, RecVal(Put(sub, orig_key, StrVal(value)))))
        /\ UNCHANGED <<hstack, log>>

\* the key maps to a plain rename
HeaderValue(top, orig_key, value) ==
    LET rec == GetAt(fields, top.path)
    IN  IF field_is_array(orig_key)
        THEN /\ fields' = SetAt(fields, top.path,
                    Put(rec, orig_key, ListVal(Append(ListOf(rec, orig_key), StrVal(value)))))
             /\ UNCHANGED <<hstack, log>>
        ELSE /\ log' = IF orig_key \in DOMAIN rec
                       THEN Append(log, Warning("DuplicateKey", orig_key))
                       ELSE log
             /\ fields' = SetAt(fields, top.path, Put(rec, orig_key, StrVal(value)))
             /\ UNCHANGED hstack

\* a variant that looks an unknown key up in the root table and stores a
\* plain rename found there on the Record of the bottom frame
UnknownKeyFallsBack(key, value) ==
    IF key \in DOMAIN KEY_MAP("KEY_MAP") /\ ~IsTuple(KEY_MAP("KEY_MAP")[key])
    THEN /\ fields' = SetAt(fields, hstack[1].path,
                Put(GetAt(fields, hstack[1].path), KEY_MAP("KEY_MAP")[key].name, StrVal(value)))
         /\ UNCHANGED <<hstack, log>>
    ELSE /\ log' = IF ~(key = EmptyStr \/ value = EmptyStr) /\ key # <<"ITEM INFORMATION">>
                   THEN Append(log, Warning("UnknownKey", key))
                   ELSE log
         /\ UNCHANGED <<fields, hstack>>

\* the key is not in the table of the top frame
UnknownKey(key, value) ==
    /\ log' = IF ~(key = EmptyStr \/ value = EmptyStr) /\ key # <<"ITEM INFORMATION">>
              THEN Append(log, Warning("UnknownKey", key))
              ELSE log
    /\ UNCHANGED <<fields, hstack>>

\* "len(parts) == 0", the test that guards the header's ValueError
NoColon(parts) == Len(parts) = 0

HeaderStep(l) ==
    LET top == hstack[Len(hstack)]
        rec == GetAt(fields, top.path)
        parts == Split1(l, ":")
        key == Strip(parts[1])
        value == IF Len(parts) = 1 THEN EmptyStr ELSE Strip(parts[2])
        key_map == KEY_MAP(top.table)
    IN  IF IsBlank(l)
        THEN /\ hstack' = IF ClosesSection(rec)
                          THEN SubSeq(hstack, 1, Len(hstack) - 1)
                          ELSE hstack
             /\ UNCHANGED <<pc, fields, stack, content, log, err>>
        ELSE IF StartsWith(l, <<"<", "/", "SEC-HEADER", ">">>)
        THEN /\ pc' = "tag"
             /\ hstack' = <<>>
             /\ UNCHANGED <<fields, stack, content, log, err>>
        ELSE IF StartsWith(l, <<"<", "ACCEPTANCE-DATETIME", ">">>)
        THEN UNCHANGED <<pc, fields, stack, content, hstack, log, err>>
        ELSE IF NoColon(parts)
        THEN /\ Raise(ValueError("MissingColon"))
             /\ UNCHANGED <<fields, content>>
        ELSE /\ IF key \in DOMAIN key_map
                THEN IF IsTuple(key_map[key])
                     THEN HeaderSection(top, key_map[key], key)
                     ELSE HeaderValue(top, key_map[key].name, value)
                ELSE UnknownKey(key, value)
             /\ UNCHANGED <<pc, stack, content, err>>

HeaderLine ==
    /\ pc = "header"
    /\ \E l \in Lines : ReadLine(l) /\ HeaderStep(l)
    /\ UNCHANGED <<feed, src>>

(***************************************************************************)
(* deserialize: the check of the expected top-level fields, and the return *)
(***************************************************************************)
expected_top_fields == << <<"DOCUMENT">>, <<"FILER">> >>

\* the expected fields the dict lacks, in the order they are looked for
Missing(d) == SelectSeq(expected_top_fields, LAMBDA f : f \notin DOMAIN d)

\* evaluating input.name succeeds
HasName(source) == source = "file"

PostCheck ==
    /\ pc = "check"
    /\ IF Missing(fields) # <<>> /\ ~HasName(src)
       THEN /\ Raise(AttributeError("name"))
            /\ UNCHANGED <<fields, content>>
       ELSE /\ log' = log \o [i \in 1..Len(Missing(fields)) |->
                                 Warning("MissingTopLevel", Missing(fields)[i])]
            /\ pc' = "returned"
            /\ UNCHANGED <<fields, stack, content, hstack, err>>
    /\ UNCHANGED <<feed, src, nread, eof, line>>

(***************************************************************************)
(* deserialize: the except clause logs the exception and re-raises it      *)
(***************************************************************************)
\* a variant of the except clause that logs and returns what was parsed
HandlerSwallows ==
    /\ pc = "except"
    /\ log' = Append(log, ErrorLog(err))
    /\ pc' = "returned"
    /\ UNCHANGED <<feed, src, nread, eof, line, fields, stack, content, hstack, err>>

Handler ==
    /\ pc = "except"
    /\ log' = Append(log, ErrorLog(err))
    /\ pc' = "raised"
    /\ UNCHANGED <<feed, src, nread, eof, line, fields, stack, content, hstack, err>>

(***************************************************************************)
(* The program                                                             *)
(***************************************************************************)
Next == Start \/ TagLine \/ TextLine \/ HeaderLine \/ PostCheck \/ Handler

Spec == Init /\ [][Next]_vars

(***************************************************************************)
(* Vocabulary of the properties                                            *)
(***************************************************************************)
\* the innermost activation of process_nested_fields, and its dict before
\* and after a step
Top == stack[Len(stack)]
CurRec == GetAt(fields, Top.path)
CurRecAfter == GetAt(fields', Top.path)

\* key and value of a tag line "<key>value"
TagKey(l) == Strip(Tail(Split1(l, ">")[1]))
TagValue(l) == Strip(Split1(l, ">")[2])

\* l, read in tag mode in block name, is neither the end of input nor a
\* terminator, and has both brackets
WellFormedTag(l, name) ==
    /\ l # EOF
    /\ ~IsTerminator(l, name)
    /\ StartsWith(l, <<"<">>)
    /\ Find(l, ">") > 0

\* the step is the tag-block parser handling an occurrence of key k, other
\* than TEXT and SEC-HEADER, in the innermost block
Occurrence(k) ==
    /\ pc = "tag"
    /\ WellFormedTag(line', Top.name)
    /\ TagKey(line') = k
    /\ k \notin {<<"TEXT">>, <<"SEC-HEADER">>}

\* the value such an occurrence carries: its string, or a new nested Record
OccurrenceValue ==
    IF TagValue(line') = EmptyStr /\ TagKey(line') \notin FlagKeys
    THEN RecVal(EmptyDict)
    ELSE StrVal(TagValue(line'))

\* the step is the one that stores a value under key k of the innermost
\* block: an occurrence of k, or the </TEXT> line that ends a TEXT payload
StoresUnder(k) ==
    \/ Occurrence(k)
    \/ pc = "text" /\ k = <<"TEXT">> /\ line' # EOF /\ StartsWith(line', <<"<", "/", "TEXT", ">">>)

(***************************************************************************)
(* C1                                                                      *)
(***************************************************************************)
\* what C1 requires of a step
C1_Step ==
    pc \in {"tag", "text"} =>
        \A k \in DOMAIN CurRec :
            (~field_is_array(k) /\ StoresUnder(k)) =>
                /\ pc' = "except"
                /\ err' = ValueError("DuplicateKey")
                /\ fields' = fields

\* C1: in the tag-block parser, a step that stores a value (scalar leaf,
\* nested block or TEXT payload) under a non-array key that the block's
\* Record already holds raises the duplicate-key error and leaves the
\* Record tree as it was.
C1_DuplicateKeyIsFatal == [][C1_Step]_vars

(***************************************************************************)
(* C2                                                                      *)
(***************************************************************************)
\* the elements a sequence held are still there, in place: a string is
\* unchanged, a nested Record is still a nested Record
KeepsElements(old, new) ==
    /\ Len(new) >= Len(old)
    /\ \A i \in 1..Len(old) :
          /\ new[i].t = old[i].t
          /\ old[i].t = "str" => new[i] = old[i]

\* what C2 requires of a step, for the block of activation n and array key k:
\* an occurrence of k in the innermost block appends its value and raises
\* nothing; any other step leaves the sequence with the elements it had
C2_Orig_Step ==
    stack # <<>> =>
        \A n \in 1..Len(stack) : \A k \in DOMAIN GetAt(fields', stack[n].path) :
            field_is_array(k) =>
                LET old == ListOf(GetAt(fields, stack[n].path), k)
                    new == ListOf(GetAt(fields', stack[n].path), k)
                IN  IF n = Len(stack) /\ Occurrence(k)
                    THEN pc' # "except" /\ new = Append(old, OccurrenceValue)
                    ELSE Len(new) = Len(old) /\ KeepsElements(old, new)

\* C2 as stated: after k occurrences of an array key in a block, handled by
\* the tag-block parser, the field is a sequence of exactly k elements, the
\* i-th the value of the i-th occurrence, and no occurrence raises an error.
\* Step by step: each occurrence appends exactly its value, and no other
\* step of the program changes the length or the order of the sequence.
C2_OnlyOccurrencesAppend == [][C2_Orig_Step]_vars

\* the step is the header parser, run for a <SEC-HEADER> line of the
\* innermost block, opening a FILER section in that block's Record
HeaderOpensFiler(n, k) ==
    /\ pc = "header"
    /\ n = Len(stack)
    /\ k = <<"FILER">>
    /\ Len(hstack) = 1
    /\ Strip(Split1(line', ":")[1]) = <<"FILER">>

C2_Step ==
    stack # <<>> =>
        \A n \in 1..Len(stack) : \A k \in DOMAIN GetAt(fields', stack[n].path) :
            field_is_array(k) =>
                LET old == ListOf(GetAt(fields, stack[n].path), k)
                    new == ListOf(GetAt(fields', stack[n].path), k)
                IN  IF n = Len(stack) /\ Occurrence(k)
                    THEN pc' # "except" /\ new = Append(old, OccurrenceValue)
                    ELSE IF HeaderOpensFiler(n, k)
                    THEN new = Append(old, RecVal(EmptyDict))
                    ELSE Len(new) = Len(old) /\ KeepsElements(old, new)

\* C2, amended: each occurrence of an array key that the tag-block parser
\* handles in a block appends exactly its value (string or new nested
\* Record) to the sequence under that key in the block's Record and raises
\* no error; the only other step that changes the length of such a sequence
\* is a FILER section line of a SEC-HEADER block read in that block, which
\* appends one new Record to FILER.
C2_OccurrencesAppendInOrder == [][C2_Step]_vars

\* three occurrences of DOCUMENT at top level, with and without a value
C2_Witness ==
    /\ pc = "tag"
    /\ Len(stack) = 1
    /\ <<"DOCUMENT">> \in DOMAIN fields
    /\ fields[<<"DOCUMENT">>].v =
          <<StrVal(<<"x">>), RecVal(EmptyDict), StrVal(<<"x">>)>>

(***************************************************************************)
(* C3                                                                      *)
(***************************************************************************)
\* what C3 requires of a step
C3_Step ==
    /\ (pc = "tag" /\ pc' = "text") => content' = <<>>
    /\ (pc = "text" /\ line' # EOF) =>
          IF StartsWith(line', <<"<", "/", "TEXT", ">">>)
          THEN /\ pc' = "tag"
               /\ stack' = stack
               /\ err' = NoError
               /\ DOMAIN CurRecAfter = DOMAIN CurRec \cup {<<"TEXT">>}
               /\ CurRecAfter[<<"TEXT">>] = StrVal(Join(content))
               /\ \A k \in DOMAIN CurRec \ {<<"TEXT">>} : CurRecAfter[k] = CurRec[k]
          ELSE /\ content' = Append(content, line')
               /\ pc' = "text"
               /\ stack' = stack
               /\ fields' = fields
               /\ err' = NoError

\* C3: after a <TEXT> line every line read before the first line starting
\* with </TEXT> is appended unchanged to the payload and has no other effect
\* (no block is opened or closed by it); the </TEXT> line stores the
\* concatenation of those lines under TEXT in the block's Record, and the
\* parser is back in tag mode in the same block.
C3_TextIsRaw == [][C3_Step]_vars

\* a payload holding the close tag of the enclosing block and </SEC-DOCUMENT>
C3_Witness ==
    /\ pc = "tag"
    /\ Len(stack) = 1
    /\ <<"TEXT">> \in DOMAIN fields
    /\ fields[<<"TEXT">>] = StrVal(CloseTag("SUBMISSION") \o CloseTag("SEC-DOCUMENT"))

(***************************************************************************)
(* C4                                                                      *)
(***************************************************************************)
\* while an exception is in flight or has left deserialize, no parser is active
C4_Inv == err # NoError => (pc \in {"except", "raised"} /\ stack = <<>> /\ hstack = <<>>)

\* the only step after an exception is raised: the handler passes it on
C4_Step ==
    err # NoError =>
        /\ pc = "except"
        /\ pc' = "raised"
        /\ err' = err
        /\ nread' = nread
        /\ eof' = eof
        /\ line' = line
        /\ fields' = fields

\* C4: once a fatal error is raised, no further line is read, no block goes
\* on parsing, and deserialize ends raising that same error: it never
\* returns a Record.
C4_FatalErrorAborts == [](C4_Inv) /\ [][C4_Step]_vars

\* a duplicate key two blocks deep, with input left unread
C4_Witness ==
    /\ pc = "raised"
    /\ err = ValueError("DuplicateKey")
    /\ ~eof
    /\ nread < MaxLines
    /\ <<"DOCUMENT">> \in DOMAIN fields
    /\ fields[<<"DOCUMENT">>].v[1].t = "rec"
    /\ <<"TYPE">> \in DOMAIN fields[<<"DOCUMENT">>].v[1].v

(***************************************************************************)
(* C5                                                                      *)
(***************************************************************************)
\* the warnings C5 expects: one per expected field the Record lacks
ExpectedWarnings(d) ==
    (IF <<"DOCUMENT">> \in DOMAIN d THEN <<>> ELSE <<Warning("MissingTopLevel", <<"DOCUMENT">>)>>)
    \o (IF <<"FILER">> \in DOMAIN d THEN <<>> ELSE <<Warning("MissingTopLevel", <<"FILER">>)>>)

\* what C5 requires of a step
C5_Step ==
    pc = "check" =>
        /\ pc' = "returned"
        /\ err' = NoError
        /\ fields' = fields
        /\ log' = log \o ExpectedWarnings(fields)

\* C5: whatever the line source (file or StringIO) and whichever expected
\* top-level fields are missing, the check after the parse returns the
\* Record, having logged exactly one warning per missing field, and raises
\* nothing.
C5_MissingFieldsOnlyWarn == [][C5_Step]_vars

(***************************************************************************)
(* Vocabulary of the header properties                                     *)
(***************************************************************************)
\* the top frame of the header parser, and its dict before and after a step
HTop == hstack[Len(hstack)]
HRec == GetAt(fields, HTop.path)
HRecAfter == GetAt(fields', HTop.path)

\* key and value of a header line "key: value"
HeaderLineKey(l) == Strip(Split1(l, ":")[1])
HeaderLineValue(l) == IF Find(l, ":") = 0 THEN EmptyStr ELSE Strip(Split1(l, ":")[2])

\* l is not the end of input, not blank, not the header's end and not an
\* <ACCEPTANCE-DATETIME> line
OrdinaryHeaderLine(l) ==
    /\ l # EOF
    /\ Strip(l) # EmptyStr
    /\ ~StartsWith(l, <<"<", "/", "SEC-HEADER", ">">>)
    /\ ~StartsWith(l, <<"<", "ACCEPTANCE-DATETIME", ">">>)

(***************************************************************************)
(* C6                                                                      *)
(***************************************************************************)
\* C6: the header parser terminates on every finite input: once the line
\* source is exhausted it is never left without a step that changes
\* something (that closes a section or returns), whatever its frame stack.
C6_HeaderTerminatesAtEof == (pc = "header" /\ eof) => ENABLED <<Next>>_vars

(***************************************************************************)
(* C7                                                                      *)
(***************************************************************************)
\* what C7 requires of a step
C7_Step ==
    (pc = "header" /\ OrdinaryHeaderLine(line') /\ Find(line', ":") = 0) =>
        /\ pc' = "except"
        /\ err' = ValueError("MissingColon")

\* C7: in the header parser a line that is not blank, not </SEC-HEADER>, not
\* <ACCEPTANCE-DATETIME> and holds no ':' raises the missing-colon error.
C7_MissingColonIsFatal == [][C7_Step]_vars

(***************************************************************************)
(* C8                                                                      *)
(***************************************************************************)
\* what C8 requires of a step
C8_Step ==
    (pc = "header" /\ OrdinaryHeaderLine(line')
        /\ HeaderLineKey(line') \in DOMAIN KEY_MAP(HTop.table)) =>
        LET entry == KEY_MAP(HTop.table)[HeaderLineKey(line')]
            orig == entry.name
        IN  (~field_is_array(orig) /\ orig \in DOMAIN HRec) =>
                /\ log' = Append(log, Warning("DuplicateKey", orig))
                /\ DOMAIN HRecAfter = DOMAIN HRec
                /\ HRecAfter[orig] = IF IsTuple(entry)
                                     THEN RecVal(EmptyDict)
                                     ELSE StrVal(HeaderLineValue(line'))
                /\ \A k \in DOMAIN HRec \ {orig} : HRecAfter[k] = HRec[k]
                /\ pc' = "header"
                /\ err' = NoError

\* C8: in the header parser, a key that maps (plain rename or nested
\* section) to a non-array name the active frame's Record already holds logs
\* a duplicate-key warning, replaces the value by the new one (the string,
\* or a fresh empty Record) and parsing goes on without an error.
C8_HeaderDuplicateOverwrites == [][C8_Step]_vars

\* a second COMPANY DATA section of a filer has replaced the first
C8_Witness ==
    /\ pc = "header"
    /\ line = Section("COMPANY DATA")
    /\ log = <<Warning("DuplicateKey", <<"COMPANY-DATA">>)>>
    /\ fields[<<"FILER">>].v[1].v[<<"COMPANY-DATA">>] = RecVal(EmptyDict)

(***************************************************************************)
(* C9                                                                      *)
(***************************************************************************)
BracketErrors == {ValueError("MissingOpenBracket"), ValueError("MissingCloseBracket")}

\* what C9 requires of a step
C9_Step ==
    (pc = "tag" /\ line' # EOF /\ ~IsTerminator(line', Top.name)) =>
        /\ ~StartsWith(line', <<"<">>) =>
              (pc' = "except" /\ err' = ValueError("MissingOpenBracket"))
        /\ (StartsWith(line', <<"<">>) /\ Find(line', ">") = 0) =>
              (pc' = "except" /\ err' = ValueError("MissingCloseBracket"))

\* C9: in tag mode a line that is not a terminator of the current block and
\* does not begin with '<' (a blank line too) raises the missing-open-bracket
\* error, one that begins with '<' and holds no '>' raises the
\* missing-close-bracket error, and after either deserialize returns nothing.
C9_BracketErrors ==
    [][C9_Step]_vars /\ [](err \in BracketErrors => pc \in {"except", "raised"})

\* a blank line inside a nested block
C9_Witness ==
    /\ pc = "raised"
    /\ err = ValueError("MissingOpenBracket")
    /\ line = Blank
    /\ <<"DOCUMENT">> \in DOMAIN fields

(***************************************************************************)
(* C10                                                                     *)
(***************************************************************************)
\* what C10 requires of a step
C10_Step ==
    /\ pc = "start" =>
          IF \/ StartsWith(line', <<"<", "SUBMISSION", ">">>)
             \/ StartsWith(line', <<"<", "SEC-DOCUMENT", ">">>)
          THEN /\ pc' = "tag"
               /\ stack' = <<Frame(<<"SUBMISSION">>, <<>>)>>
               /\ fields' = EmptyDict
               /\ err' = NoError
          ELSE /\ pc' = "except"
               /\ err' = ValueError("InvalidLeadingMarker")
               /\ stack' = <<>>
    /\ err = ValueError("InvalidLeadingMarker") => (nread' = nread /\ stack' = <<>>)

\* C10: deserialize raises the invalid-leading-marker error exactly when the
\* first line (the end of input, for an empty input) does not start with
\* <SUBMISSION> or <SEC-DOCUMENT>, and then reads no further line and never
\* runs the tag-block parser; otherwise the tag-block parser starts on the
\* next line, in a block named SUBMISSION, with an empty Record.
C10_LeadingMarker ==
    /\ [][C10_Step]_vars
    /\ [](err = ValueError("InvalidLeadingMarker") => (nread <= 1 /\ fields = EmptyDict))

\* the empty input
C10_Witness ==
    /\ pc = "raised"
    /\ err = ValueError("InvalidLeadingMarker")
    /\ nread = 0
    /\ eof

(***************************************************************************)
(* C11                                                                     *)
(***************************************************************************)
\* what C11 requires of a step
C11_Step ==
    /\ (pc = "tag" /\ WellFormedTag(line', Top.name) /\ TagKey(line') = <<"SEC-HEADER">>) =>
          /\ pc' = "header"
          /\ hstack' = <<HFrame(Top.path, "KEY_MAP", EmptyStr)>>
          /\ fields' = fields
          /\ stack' = stack
    /\ (pc = "header" /\ Len(hstack) = 1 /\ OrdinaryHeaderLine(line')
          /\ HeaderLineKey(line') \in DOMAIN KEY_MAP("KEY_MAP")
          /\ ~IsTuple(KEY_MAP("KEY_MAP")[HeaderLineKey(line')])) =>
          LET name == KEY_MAP("KEY_MAP")[HeaderLineKey(line')].name
          IN  /\ DOMAIN CurRecAfter = DOMAIN CurRec \cup {name}
              /\ CurRecAfter[name] = StrVal(HeaderLineValue(line'))
              /\ <<"SEC-HEADER">> \notin DOMAIN CurRecAfter
              /\ stack' = stack
              /\ pc' = "header"
    /\ (pc = "header" /\ StartsWith(line', <<"<", "/", "SEC-HEADER", ">">>)) =>
          /\ pc' = "tag"
          /\ stack' = stack
          /\ fields' = fields
          /\ nread' = nread + 1

\* C11: a <SEC-HEADER> line read in block B creates no field and starts the
\* header parser on B's Record; while its root frame is active a header line
\* whose key is a plain rename of the root table is stored under the
\* canonical name on B's Record itself; the </SEC-HEADER> line is read by the
\* header parser, after which the tag-block parser goes on in block B.
C11_HeaderWritesToBlock == [][C11_Step]_vars

\* a header inside a nested block, closed, the block still open
C11_Witness ==
    /\ pc = "tag"
    /\ line = CloseTag("SEC-HEADER")
    /\ Len(stack) = 2
    /\ fields = (<<"SUBMISSION">> :> RecVal(<<"FILING-DATE">> :> StrVal(<<"1">>)))

(***************************************************************************)
(* C12                                                                     *)
(***************************************************************************)
\* the step reads a <SEC-HEADER> line in tag mode
OpensHeader ==
    pc = "tag" /\ WellFormedTag(line', Top.name) /\ TagKey(line') = <<"SEC-HEADER">>

\* what C12 requires of a step
C12_Step ==
    /\ (pc \in {"tag", "text"} /\ ~OpensHeader /\ pc' # "except") =>
          IF Len(stack) = 1 /\ pc = "tag" /\ Occurrence(TagKey(line'))
          THEN DOMAIN fields' = DOMAIN fields \cup {TagKey(line')}
          ELSE IF Len(stack) = 1 /\ StoresUnder(<<"TEXT">>)
          THEN DOMAIN fields' = DOMAIN fields \cup {<<"TEXT">>}
          ELSE DOMAIN fields' = DOMAIN fields
    /\ (pc = "check" /\ pc' = "returned") => fields' = fields

\* C12: outside a SEC-HEADER block, a tag line (or TEXT payload) handled
\* without error at the top level adds its key to the field names of the
\* top-level Record, no other step of the tag-block parser changes that set
\* of names, and deserialize returns the Record as the parser left it; so
\* the returned Record's field names are exactly the keys of the top-level
\* tag lines.
C12_TopLevelFieldNames == [][C12_Step]_vars

\* returned with one top-level field, its nested block holding another key
C12_Witness ==
    /\ pc = "returned"
    /\ DOMAIN fields = {<<"DOCUMENT">>}
    /\ fields[<<"DOCUMENT">>] = ListVal(<<RecVal(<<"TYPE">> :> StrVal(<<"10-K">>))>>)

(***************************************************************************)
(* C13                                                                     *)
(***************************************************************************)
\* the Record of the n-th open block is held by the Record of the block that
\* encloses it, under the block's key
Attached(n) ==
    LET p == stack[n].path
        parent == GetAt(fields, stack[n - 1].path)
    IN  /\ Len(p) = Len(stack[n - 1].path) + 1
        /\ SubSeq(p, 1, Len(p) - 1) = stack[n - 1].path
        /\ p[Len(p)].key = stack[n].name
        /\ stack[n].name \in DOMAIN parent
        /\ IF p[Len(p)].idx = 0
           THEN parent[stack[n].name].t = "rec"
           ELSE /\ parent[stack[n].name].t = "list"
                /\ p[Len(p)].idx <= Len(parent[stack[n].name].v)
                /\ parent[stack[n].name].v[p[Len(p)].idx].t = "rec"

\* C13, as stated: while a nested block is still being read, the Record of
\* the enclosing block does not yet contain the nested block's Record.
C13_AttachedAtClose == \A n \in 2..Len(stack) : ~Attached(n)

\* what the amended C13 requires of a step
C13_Step ==
    /\ (Occurrence(TagKey(line')) /\ IsNested(TagKey(line'), TagValue(line'))
          /\ pc' # "except") =>
          /\ stack' = Append(stack, stack'[Len(stack')])
          /\ stack'[Len(stack')].name = TagKey(line')
          /\ GetAt(fields', stack'[Len(stack')].path) = EmptyDict
          /\ CurRecAfter =
                Put(CurRec, TagKey(line'),
                    IF field_is_array(TagKey(line'))
                    THEN ListVal(Append(ListOf(CurRec, TagKey(line')), RecVal(EmptyDict)))
                    ELSE RecVal(EmptyDict))
    /\ (pc = "tag" /\ Len(stack) > 1 /\ (line' = EOF \/ IsTerminator(line', Top.name))) =>
          /\ fields' = fields
          /\ stack' = SubSeq(stack, 1, Len(stack) - 1)

\* C13: a nested Record is attached to the Record of the enclosing block
\* exactly once, by the step that handles its opening tag, where it is
\* attached empty; it stays attached while the nested block is read, and the
\* step that closes the block (its close tag, </SEC-DOCUMENT> or the end of
\* input) leaves the Record tree as it is.
C13_AttachedAtOpen ==
    /\ [][C13_Step]_vars
    /\ [](\A n \in 2..Len(stack) : Attached(n))

\* a nested block still open, its Record already filled inside its parent
C13_Witness ==
    /\ pc = "tag"
    /\ Len(stack) = 2
    /\ fields = (<<"DOCUMENT">> :> ListVal(<<RecVal(<<"TYPE">> :> StrVal(<<"10-K">>))>>))

(***************************************************************************)
(* C14                                                                     *)
(***************************************************************************)
\* what C14 requires of a step
C14_Step ==
    /\ (pc = "tag" /\ line' = EOF) =>
          /\ stack' = SubSeq(stack, 1, Len(stack) - 1)
          /\ fields' = fields
          /\ err' = NoError
          /\ pc' \in {"tag", "check"}
    /\ (pc = "check" /\ eof) =>
          /\ pc' = "returned"
          /\ fields' = fields
          /\ err' = NoError
    /\ (pc = "text" /\ line' = EOF) =>
          /\ pc' = "except"
          /\ err' = ValueError("UnterminatedText")
          /\ fields' = fields

\* C14: when the end of input is read in tag mode every open block returns
\* without error, leaving the Record tree as built, and deserialize then
\* returns that tree and raises nothing; when it is read inside a TEXT
\* payload the unterminated-TEXT error is raised and no TEXT field is stored.
C14_EofAsymmetry == [][C14_Step]_vars

(***************************************************************************)
(* C15                                                                     *)
(***************************************************************************)
\* what C15 requires of a step
C15_Step ==
    pc = "header" =>
        /\ (line' = EOF \/ Strip(line') = EmptyStr) =>
              /\ hstack' = IF Cardinality(DOMAIN HRec) > 0 /\ Len(hstack) > 1
                           THEN SubSeq(hstack, 1, Len(hstack) - 1)
                           ELSE hstack
              /\ fields' = fields
              /\ log' = log
              /\ pc' = "header"
        /\ (line' # EOF /\ Strip(line') # EmptyStr /\ pc' = "header") =>
              /\ Len(hstack') >= Len(hstack)
              /\ SubSeq(hstack', 1, Len(hstack)) = hstack

\* C15: in the header parser a blank line (or the end of input) removes the
\* top frame, and only that frame, exactly when the frame's Record has a
\* field and the stack holds more than one frame, and otherwise changes
\* nothing; a line that is not blank removes no frame.
C15_BlankLinePops == [][C15_Step]_vars

\* a blank line has closed the COMPANY DATA section and left the FILER
\* section open
C15_Witness ==
    /\ pc = "header"
    /\ line = Blank
    /\ Len(hstack) = 2
    /\ fields = (<<"FILER">> :> ListVal(<<RecVal(
                    <<"COMPANY-DATA">> :> RecVal(<<"CIK">> :> StrVal(<<"1">>)))>>))

(***************************************************************************)
(* C16                                                                     *)
(***************************************************************************)
\* l starts with <ACCEPTANCE-DATETIME>
IsAcceptance(l) == StartsWith(l, <<"<", "ACCEPTANCE-DATETIME", ">">>)

\* l is a line of the header, neither blank nor its end, that is an
\* <ACCEPTANCE-DATETIME> line or whose key the table of the top frame lacks
Unresolved(l) ==
    /\ l # EOF
    /\ Strip(l) # EmptyStr
    /\ ~StartsWith(l, <<"<", "/", "SEC-HEADER", ">">>)
    /\ IsAcceptance(l) \/ HeaderLineKey(l) \notin DOMAIN KEY_MAP(HTop.table)

\* the warning for a line with a key and a value, unless ITEM INFORMATION
UnknownKeyLog(l) ==
    IF HeaderLineKey(l) # EmptyStr /\ HeaderLineValue(l) # EmptyStr
       /\ HeaderLineKey(l) # <<"ITEM INFORMATION">>
    THEN Append(log, Warning("UnknownKey", HeaderLineKey(l)))
    ELSE log

\* what C16 requires of a step, as stated
C16_Orig_Step ==
    (pc = "header" /\ Unresolved(line')) =>
        /\ fields' = fields
        /\ hstack' = hstack
        /\ pc' = "header"
        /\ log' = UnknownKeyLog(line')

\* C16, as stated: a header line whose key the active table lacks, and any
\* <ACCEPTANCE-DATETIME> line, leaves the Record tree and the frame stack
\* unchanged and logs a warning exactly when its key and value are both
\* non-empty and the key is not ITEM INFORMATION.
C16_UnknownKeyWarns == [][C16_Orig_Step]_vars

\* what the amended C16 requires of a step
C16_Step ==
    (pc = "header" /\ Unresolved(line')) =>
        /\ fields' = fields
        /\ hstack' = hstack
        /\ pc' = "header"
        /\ log' = IF IsAcceptance(line') THEN log ELSE UnknownKeyLog(line')

\* C16: a header line whose key the active table lacks (even if an ancestor
\* frame's table has it), and any <ACCEPTANCE-DATETIME> line, leaves the
\* Record tree and the frame stack unchanged; an <ACCEPTANCE-DATETIME> line
\* logs nothing, and any other such line logs a warning exactly when its key
\* and value are both non-empty and the key is not ITEM INFORMATION.
C16_UnknownKeyLeavesTree == [][C16_Step]_vars

\* inside a FILER section: a root-table key was warned about and not stored,
\* then an <ACCEPTANCE-DATETIME> line with a colon was skipped silently
C16_Witness ==
    /\ pc = "header"
    /\ line = AcceptanceLine
    /\ Len(hstack) = 2
    /\ fields = (<<"FILER">> :> ListVal(<<RecVal(EmptyDict)>>))
    /\ log = <<Warning("UnknownKey", <<"FILED AS OF DATE">>)>>

(***************************************************************************)
(* C17                                                                     *)
(***************************************************************************)
RECURSIVE ArrayFieldsAreLists(_)
\* in d and in every Record below it, exactly the array-named fields hold
\* sequences
ArrayFieldsAreLists(d) ==
    \A k \in DOMAIN d :
        /\ field_is_array(k) <=> d[k].t = "list"
        /\ d[k].t \in {"str", "rec", "list"}
        /\ d[k].t = "rec" => ArrayFieldsAreLists(d[k].v)
        /\ d[k].t = "list" =>
              \A i \in 1..Len(d[k].v) :
                  d[k].v[i].t = "rec" => ArrayFieldsAreLists(d[k].v[i].v)

\* C17: in every reachable state, in every Record of the tree, a field whose
\* name is in the array-field set holds a sequence and any other field holds
\* a string or a single Record, whichever parser stored it.
C17_ArrayFieldsHoldSequences == ArrayFieldsAreLists(fields)

\* one FILER sequence holding a Record the header parser appended and a
\* Record the tag-block parser appended
C17_Witness ==
    /\ pc = "tag"
    /\ Len(stack) = 2
    /\ line = OpenTag("FILER")
    /\ fields = (<<"FILER">> :> ListVal(<<RecVal(EmptyDict), RecVal(EmptyDict)>>))

(***************************************************************************)
(* C18                                                                     *)
(***************************************************************************)
RECURSIVE Homogeneous(_)
\* in d and in every Record below it, the elements of a sequence are all
\* strings or all Records
Homogeneous(d) ==
    \A k \in DOMAIN d :
        /\ d[k].t = "rec" => Homogeneous(d[k].v)
        /\ d[k].t = "list" =>
              /\ \A i, j \in 1..Len(d[k].v) : d[k].v[i].t = d[k].v[j].t
              /\ \A i \in 1..Len(d[k].v) :
                    d[k].v[i].t = "rec" => Homogeneous(d[k].v[i].v)

\* C18: in every Record of the tree, in every reachable state and so in the
\* Record deserialize returns, a sequence holds only strings or only
\* Records, never both.
C18_SequencesHomogeneous == Homogeneous(fields)

(***************************************************************************)
(* C19                                                                     *)
(***************************************************************************)
\* the frame stack while the header parser runs
C19_Inv ==
    pc = "header" =>
        /\ Len(hstack) >= 1
        /\ Len(hstack) <= 3
        /\ hstack[1].path = Top.path
        /\ hstack[1].table = "KEY_MAP"

\* what C19 requires of a step
C19_Step ==
    (pc = "header" /\ pc' = "header" /\ Len(hstack') > Len(hstack)) =>
        /\ line' # EOF
        /\ HeaderLineKey(line') \in DOMAIN KEY_MAP(HTop.table)
        /\ LET entry == KEY_MAP(HTop.table)[HeaderLineKey(line')]
               new == hstack'[Len(hstack')]
           IN  /\ IsTuple(entry)
               /\ hstack' = Append(hstack, new)
               /\ new.table = entry.sub
               /\ new.path = Append(HTop.path,
                      [key |-> entry.name,
                       idx |-> IF field_is_array(entry.name)
                               THEN Len(ListOf(HRec, entry.name)) + 1
                               ELSE 0])
               /\ GetAt(fields', new.path) = EmptyDict
               /\ HRecAfter = Put(HRec, entry.name,
                      IF field_is_array(entry.name)
                      THEN ListVal(Append(ListOf(HRec, entry.name), RecVal(EmptyDict)))
                      ELSE RecVal(EmptyDict))

\* C19: while the header parser runs its frame stack is non-empty, its
\* bottom frame is the Record of the block that read <SEC-HEADER> with the
\* root table, and it holds at most 3 frames; a frame is pushed only by a
\* line whose key maps to a nested-section entry of the active table, and
\* the pushed frame carries that entry's table and the empty Record the same
\* step attached to the active frame's Record.
C19_HeaderStack ==
    /\ [](C19_Inv)
    /\ [][C19_Step]_vars

\* the deepest stack: root, FILER section, COMPANY DATA section
C19_Witness ==
    /\ pc = "header"
    /\ Len(hstack) = 3
    /\ hstack[3].table = "COMPANY DATA"
    /\ hstack[2].table = "FILER"

(***************************************************************************)
(* C20                                                                     *)
(***************************************************************************)
\* the step reads, in tag mode, a close-tag line </X> with nothing after
\* the bracket that is neither the close tag of the innermost block nor
\* </SEC-DOCUMENT>
UnmatchedClose ==
    /\ pc = "tag"
    /\ line' # EOF
    /\ StartsWith(line', <<"<", "/">>)
    /\ ~StartsWith(line', <<"<", "/">> \o Top.name \o <<">">>)
    /\ ~StartsWith(line', <<"<", "/", "SEC-DOCUMENT", ">">>)
    /\ Find(line', ">") > 0
    /\ TagValue(line') = EmptyStr

\* the step opens a nested block under the key of the line it reads
OpensBlock ==
    /\ pc' = "tag"
    /\ err' = NoError
    /\ Head(TagKey(line')) = "/"
    /\ CurRecAfter = Put(CurRec, TagKey(line'), RecVal(EmptyDict))
    /\ stack' = Append(stack, Frame(TagKey(line'),
                                    Append(Top.path, [key |-> TagKey(line'), idx |-> 0])))

\* what C20 requires of a step, as stated
C20_Orig_Step == UnmatchedClose => OpensBlock

\* C20, as stated: an unmatched close-tag line </X> read in tag mode raises
\* no error and opens a nested block whose Record is attached under '/X'.
C20_UnmatchedCloseOpens == [][C20_Orig_Step]_vars

\* what the amended C20 requires of a step
C20_Step ==
    UnmatchedClose =>
        IF TagKey(line') \in DOMAIN CurRec
        THEN /\ pc' = "except"
             /\ err' = ValueError("DuplicateKey")
             /\ fields' = fields
        ELSE OpensBlock

\* C20: an unmatched close-tag line </X> read in tag mode is handled as an
\* opening tag with key '/X' and empty value: if the block's Record has no
\* field '/X' a nested Record is attached under '/X' and becomes the
\* innermost block, named '/X'; if it already has one, the duplicate-key
\* error is raised and the tree is left as it was.
C20_UnmatchedCloseIsOpenTag == [][C20_Step]_vars

\* a leaf parsed into the Record that an unmatched </DOCUMENT> opened
C20_Witness ==
    /\ pc = "tag"
    /\ Len(stack) = 2
    /\ Top.name = <<"/", "DOCUMENT">>
    /\ fields = (<<"/", "DOCUMENT">> :> RecVal(<<"TYPE">> :> StrVal(<<"10-K">>)))

====
